---- MODULE Spec2Model ----
(***************************************************************************)
(* State-machine model of chatService.py: ChatService (one conversation's  *)
(* history, credential and system prompt, and the call to the completion   *)
(* endpoint) and MultiChatService (named services, one of them active).    *)
(*                                                                         *)
(* Python strings are sequences of characters; a character is either the   *)
(* blank " " or a non-blank chunk of text.  self.messages is the sequence  *)
(* of its dicts.  The list a caller got from get_messages refers to dicts: *)
(* a dict is in at most one place of each list, so an entry of the         *)
(* caller's list is either the dict at an index of self.messages (shared   *)
(* with it) or a dict that only the caller's list holds.                   *)
(***************************************************************************)
EXTENDS Integers, Sequences, FiniteSets, TLC

VARIABLES api_key, messages, system_prompt, snapshot,
          services, active_service, last

vars == <<api_key, messages, system_prompt, snapshot,
          services, active_service, last>>

chatVars == <<api_key, messages, system_prompt, snapshot>>
registryVars == <<services, active_service>>

\* ------------------------------------------------------------------ bounds
\* Longest history the add operations are explored to.
MaxHist == 2

\* Longest history the turn-only specification is explored to.
MaxTurnHist == 4

\* Longest history explored together with a caller's changes to a snapshot.
MaxSnapHist == 2

\* ------------------------------------------------------------ input sets
None == "None"

\* Texts a caller (or the endpoint) can supply.
Texts == {<<>>, <<" ">>, <<"a">>, <<" ", "a", " ">>}

\* Credentials a caller can supply.
ApiKeys == {<<>>, <<" ">>, <<"sk">>}

\* Readings of datetime.now().strftime("%H:%M:%S").
Times == {"10:00:00", "10:00:01"}

\* The texts and clock readings explored together with a caller's changes.
SnapTexts == {<<" ", "a", " ">>}
SnapTimes == {"10:00:00"}

\* str(e) of an exception raised by the endpoint call.
Details == {<<"detail">>}

\* ------------------------------------------------------------ python str
\* str.strip(): drop leading and trailing blanks.
RECURSIVE lstrip(_)
lstrip(s) ==
    IF s = <<>> THEN <<>>
    ELSE IF Head(s) = " " THEN lstrip(Tail(s)) ELSE s

RECURSIVE rstrip(_)
rstrip(s) ==
    IF s = <<>> THEN <<>>
    ELSE IF s[Len(s)] = " " THEN rstrip(SubSeq(s, 1, Len(s) - 1)) ELSE s

strip(s) == rstrip(lstrip(s))

\* ----------------------------------------------------------- ChatService
_get_system_prompt == <<"You are an educational AI assistant specialized in Science and Mathematics.">>

validate_api_key_nostrip(key) == key # <<>>

validate_api_key(key) == strip(key) # <<>>

\* The dict built by add_user_message / add_assistant_message.
new_message(role, content, now) ==
    [role |-> role, content |-> strip(content), timestamp |-> now]

\* ------------------------------------------------- the completion endpoint
\* What client.chat.completions.create(...) followed by
\* response.choices[0].message.content can do.
\* kind "content": choices[0].message.content is a str; "content_none": it
\* is None (the field is Optional[str]); "IndexError": choices is empty; the
\* other kinds are the exception the call raises.
Outcomes ==
    [kind : {"content"}, content : Texts, detail : {<<>>}]
      \cup [kind : {"content_none", "IndexError", "AuthenticationError",
                    "RateLimitError"},
            content : {<<>>}, detail : {<<>>}]
      \cup [kind : {"APIError", "Exception"}, content : {<<>>}, detail : Details]

\* No endpoint call was made.
NoOutcome == [kind |-> "none", content |-> <<>>, detail |-> <<>>]

\* isinstance(e, cls) for the exception classes of the except clauses.
IsInstance(kind, cls) ==
    \/ kind = cls
    \/ cls = "Exception"
    \/ cls = "APIError" /\ kind \in {"AuthenticationError", "RateLimitError"}

API_KEY_NOT_CONFIGURED == <<"X API key not configured.">>
EMPTY_MESSAGE == <<"X Empty message provided.">>
AUTHENTICATION_FAILED == <<"X Authentication failed. Please check your OpenAI API key.">>
RATE_LIMIT_EXCEEDED == <<"X Rate limit exceeded. Please try again later.">>
OPENAI_API_ERROR == <<"X OpenAI API error:", " ">>
UNEXPECTED_ERROR == <<"X Unexpected error:", " ">>
INDEX_ERROR_TEXT == <<"list index out of range">>

\* str(e) of the exception of an outcome.
ErrorText(o) == IF o.kind = "IndexError" THEN INDEX_ERROR_TEXT ELSE o.detail

messages_for_api_nohistory(prompt, hist, user_message) ==
    <<[role |-> "system", content |-> prompt]>>
      \o <<[role |-> "user", content |-> user_message]>>

\* The list messages_for_api of get_ai_response.
messages_for_api(prompt, hist, user_message) ==
    <<[role |-> "system", content |-> prompt]>>
      \o [i \in 1..Len(hist) |-> [role |-> hist[i].role, content |-> hist[i].content]]
      \o <<[role |-> "user", content |-> user_message]>>

\* The try/except of get_ai_response, given what the endpoint call does.
\* A returned text: is_none says the value is None rather than a str.
Result(text, is_none, success, sent) ==
    [text |-> text, is_none |-> is_none, success |-> success, sent |-> sent]

completion(o, sent) ==
    IF o.kind = "content" THEN Result(o.content, FALSE, TRUE, sent)
    ELSE IF o.kind = "content_none" THEN Result(<<>>, TRUE, TRUE, sent)
    ELSE IF IsInstance(o.kind, "AuthenticationError")
        THEN Result(AUTHENTICATION_FAILED, FALSE, FALSE, sent)
    ELSE IF IsInstance(o.kind, "RateLimitError")
        THEN Result(RATE_LIMIT_EXCEEDED, FALSE, FALSE, sent)
    ELSE IF IsInstance(o.kind, "APIError")
        THEN Result(OPENAI_API_ERROR \o ErrorText(o), FALSE, FALSE, sent)
    ELSE Result(UNEXPECTED_ERROR \o ErrorText(o), FALSE, FALSE, sent)

get_ai_response_swapped(key, prompt, hist, user_message, o) ==
    IF strip(user_message) = <<>>
        THEN Result(EMPTY_MESSAGE, FALSE, FALSE, <<>>)
    ELSE IF ~validate_api_key(key)
        THEN Result(API_KEY_NOT_CONFIGURED, FALSE, FALSE, <<>>)
    ELSE completion(o, <<messages_for_api(prompt, hist, user_message)>>)

\* get_ai_response: the text and success flag it returns, and the payloads
\* it hands to the endpoint.
get_ai_response(key, prompt, hist, user_message, o) ==
    IF ~validate_api_key(key)
        THEN Result(API_KEY_NOT_CONFIGURED, FALSE, FALSE, <<>>)
    ELSE IF strip(user_message) = <<>>
        THEN Result(EMPTY_MESSAGE, FALSE, FALSE, <<>>)
    ELSE completion(o, <<messages_for_api(prompt, hist, user_message)>>)

\* The record of the operation just carried out: its name, its text
\* argument, what the endpoint did, the result returned (ids are the
\* messages returned, by reference), and the exception that left the
\* operation ("" when it returned normally).
NoResult == Result(<<>>, FALSE, FALSE, <<>>)

Call(op, arg, outcome, r, ids, raised) ==
    [op |-> op, arg |-> arg, outcome |-> outcome, text |-> r.text,
     is_none |-> r.is_none, success |-> r.success, sent |-> r.sent,
     ids |-> ids, raised |-> raised,
     name |-> None, service |-> None, names |-> <<>>]

\* The record of a MultiChatService operation: success is the bool returned
\* by set_active_service, service the value returned by get_active_service,
\* names the list returned by get_service_names.
RegistryCall(op, name, service, success, names) ==
    [op |-> op, arg |-> <<>>, outcome |-> NoOutcome, text |-> <<>>,
     is_none |-> FALSE, success |-> success, sent |-> <<>>,
     ids |-> <<>>, raised |-> "",
     name |-> name, service |-> service, names |-> names]

Init ==
    /\ api_key \in ApiKeys
    /\ messages = <<>>
    /\ system_prompt = _get_system_prompt
    /\ snapshot = <<>>
    /\ services = <<>>
    /\ active_service = None
    /\ last = Call("__init__", api_key, NoOutcome, NoResult, <<>>, "")

set_api_key(key) ==
    /\ api_key' = key
    /\ last' = Call("set_api_key", key, NoOutcome, NoResult, <<>>, "")
    /\ UNCHANGED <<messages, system_prompt, snapshot, registryVars>>

append_front(msgs, message) == <<message>> \o msgs

\* self.messages.append(message)
append(msgs, message) == Append(msgs, message)

\* add_user_message / add_assistant_message; the dict returned is the one
\* now at the end of self.messages (ids holds its index).
add_message(op, role, content, now) ==
    /\ messages' = append(messages, new_message(role, content, now))
    /\ last' = Call(op, content, NoOutcome, NoResult, <<Len(messages) + 1>>, "")
    /\ UNCHANGED <<api_key, system_prompt, snapshot, registryVars>>

add_user_message(content, now) ==
    add_message("add_user_message", "user", content, now)

add_assistant_message(content, now) ==
    add_message("add_assistant_message", "assistant", content, now)

GetAiResponse(user_message, o) ==
    LET r == get_ai_response(api_key, system_prompt, messages, user_message, o) IN
    /\ last' = Call("get_ai_response", user_message,
                    IF r.sent = <<>> THEN NoOutcome ELSE o, r, <<>>, "")
    /\ UNCHANGED <<chatVars, registryVars>>

\* process_conversation_turn: add_user_message, get_ai_response on the
\* history that now holds the user message, add_assistant_message.  A text
\* of None has no strip(): the AttributeError leaves the operation after the
\* user message was appended.
process_conversation_turn(user_input, o, now1, now2) ==
    LET msgs1 == append(messages, new_message("user", user_input, now1))
        r     == get_ai_response(api_key, system_prompt, msgs1, user_input, o)
        out   == IF r.sent = <<>> THEN NoOutcome ELSE o
    IN  IF r.is_none
        THEN /\ messages' = msgs1
             /\ last' = Call("process_conversation_turn", user_input, out,
                             r, <<>>, "AttributeError")
             /\ UNCHANGED <<api_key, system_prompt, snapshot, registryVars>>
        ELSE /\ messages' = append(msgs1, new_message("assistant", r.text, now2))
             /\ last' = Call("process_conversation_turn", user_input, out, r,
                             <<Len(messages) + 1, Len(messages) + 2>>, "")
             /\ UNCHANGED <<api_key, system_prompt, snapshot, registryVars>>

\* ------------------------------------- the caller and the list it was given
\* An entry of the caller's list: index > 0 is the dict self.messages[index];
\* index = 0 is the dict held in the entry itself.
NoDict == [role |-> "", content |-> <<>>, timestamp |-> ""]
Shared(i) == [index |-> i, dict |-> NoDict]
Own(d) == [index |-> 0, dict |-> d]

\* The dict an entry refers to.
Deref(msgs, e) == IF e.index > 0 THEN msgs[e.index] ELSE e.dict

clear_conversation_reinit ==
    /\ messages' = <<>>
    /\ system_prompt' = <<>>
    /\ snapshot' = [i \in 1..Len(snapshot) |-> Own(Deref(messages, snapshot[i]))]
    /\ last' = Call("clear_conversation", <<>>, NoOutcome, NoResult, <<>>, "")
    /\ UNCHANGED <<api_key, registryVars>>

\* self.messages = []: the old list is dropped; the dicts it held stay
\* alive in a caller's list that refers to them.
clear_conversation ==
    /\ messages' = <<>>
    /\ snapshot' = [i \in 1..Len(snapshot) |-> Own(Deref(messages, snapshot[i]))]
    /\ last' = Call("clear_conversation", <<>>, NoOutcome, NoResult, <<>>, "")
    /\ UNCHANGED <<api_key, system_prompt, registryVars>>

get_messages_deep(msgs) == [i \in 1..Len(msgs) |-> Own(msgs[i])]

\* self.messages.copy(): a new list of the same dicts.
copy(msgs) == [i \in 1..Len(msgs) |-> Shared(i)]

\* get_messages; the caller holds the list returned (in place of the list
\* it held before).  ids are the indices of the dicts returned.
get_messages ==
    /\ snapshot' = copy(messages)
    /\ last' = Call("get_messages", <<>>, NoOutcome, NoResult,
                    [i \in 1..Len(messages) |-> i], "")
    /\ UNCHANGED <<api_key, messages, system_prompt, registryVars>>

\* A dict the caller makes itself.
CallerMessage == [role |-> "user", content |-> <<"forged">>, timestamp |-> "00:00:00"]

\* The values the caller writes into a field of a dict.
FieldWrites ==
    {<<"role", "system">>, <<"content", <<"forged">>>>, <<"timestamp", "00:00:00">>}

\* snapshot.append(d)
caller_append ==
    /\ snapshot' = Append(snapshot, Own(CallerMessage))
    /\ last' = Call("caller_append", <<>>, NoOutcome, NoResult, <<>>, "")
    /\ UNCHANGED <<api_key, messages, system_prompt, registryVars>>

\* del snapshot[i]
caller_remove(i) ==
    /\ snapshot' = SubSeq(snapshot, 1, i - 1) \o SubSeq(snapshot, i + 1, Len(snapshot))
    /\ last' = Call("caller_remove", <<>>, NoOutcome, NoResult, <<>>, "")
    /\ UNCHANGED <<api_key, messages, system_prompt, registryVars>>

\* snapshot[i] = d
caller_replace(i) ==
    /\ snapshot' = [snapshot EXCEPT ![i] = Own(CallerMessage)]
    /\ last' = Call("caller_replace", <<>>, NoOutcome, NoResult, <<>>, "")
    /\ UNCHANGED <<api_key, messages, system_prompt, registryVars>>

\* d with d[field] = value
dict_set_field(d, field, value) ==
    [f \in DOMAIN d |-> IF f = field THEN value ELSE d[f]]

\* snapshot[i][field] = value: the write is to the dict the entry refers to.
caller_set_field(i, field, value) ==
    LET e == snapshot[i] IN
    /\ IF e.index > 0
       THEN /\ messages' = [messages EXCEPT
                              ![e.index] = dict_set_field(@, field, value)]
            /\ UNCHANGED snapshot
       ELSE /\ snapshot' = [snapshot EXCEPT
                              ![i] = Own(dict_set_field(e.dict, field, value))]
            /\ UNCHANGED messages
    /\ last' = Call("caller_set_field", <<>>, NoOutcome, NoResult, <<i>>, "")
    /\ UNCHANGED <<api_key, system_prompt, registryVars>>

\* ------------------------------------------------------ MultiChatService
\* Service names and ChatService instances a caller can register.
Names == {"", "A", "B"}
Instances == {"m1", "m2"}

\* The keys of the dict self.services.
Keys(svcs) == {svcs[i].name : i \in 1..Len(svcs)}

\* self.services[name]
Lookup(svcs, name) ==
    (CHOOSE e \in {svcs[i] : i \in 1..Len(svcs)} : e.name = name).service

\* self.services[name] = service: an existing key keeps its place.
dict_set(svcs, name, service) ==
    IF name \in Keys(svcs)
        THEN [i \in 1..Len(svcs) |->
                 IF svcs[i].name = name
                     THEN [name |-> name, service |-> service] ELSE svcs[i]]
        ELSE Append(svcs, [name |-> name, service |-> service])

add_service_select_always(active, name) == name

\* The selection add_service leaves.
add_service_select(active, name) == IF active = None THEN name ELSE active

add_service(name, service) ==
    /\ services' = dict_set(services, name, service)
    /\ active_service' = add_service_select(active_service, name)
    /\ last' = RegistryCall("add_service", name, service, FALSE, <<>>)
    /\ UNCHANGED chatVars

set_active_service_select_unchecked(svcs, active, name) ==
    [active |-> name, ret |-> name \in Keys(svcs)]

set_active_service_select_noassign(svcs, active, name) ==
    [active |-> active, ret |-> name \in Keys(svcs)]

\* The selection set_active_service leaves and the bool it returns.
set_active_service_select(svcs, active, name) ==
    IF name \in Keys(svcs)
        THEN [active |-> name, ret |-> TRUE]
        ELSE [active |-> active, ret |-> FALSE]

set_active_service(name) ==
    LET r == set_active_service_select(services, active_service, name) IN
    /\ active_service' = r.active
    /\ last' = RegistryCall("set_active_service", name, None, r.ret, <<>>)
    /\ UNCHANGED <<services, chatVars>>

\* Python truth value of self.active_service (None or a str).
Truthy(name) == name # None /\ name # ""

\* The value get_active_service returns.
get_active_service_result(svcs, active) ==
    IF Truthy(active) /\ active \in Keys(svcs) THEN Lookup(svcs, active) ELSE None

get_active_service ==
    /\ last' = RegistryCall("get_active_service", None,
                            get_active_service_result(services, active_service),
                            FALSE, <<>>)
    /\ UNCHANGED <<registryVars, chatVars>>

get_service_names ==
    /\ last' = RegistryCall("get_service_names", None, None, FALSE,
                            [i \in 1..Len(services) |-> services[i].name])
    /\ UNCHANGED <<registryVars, chatVars>>

\* ---------------------------------------------------------- specifications
SetApiKey == \E key \in ApiKeys : set_api_key(key)

AddUserMessage ==
    /\ Len(messages) < MaxHist
    /\ \E content \in Texts, now \in Times : add_user_message(content, now)

AddAssistantMessage ==
    /\ Len(messages) < MaxHist
    /\ \E content \in Texts, now \in Times : add_assistant_message(content, now)

RequestCompletion == \E text \in Texts, o \in Outcomes : GetAiResponse(text, o)

ProcessTurn ==
    /\ Len(messages) + 2 <= MaxTurnHist
    /\ \E text \in Texts, o \in Outcomes, now1 \in Times, now2 \in Times :
          process_conversation_turn(text, o, now1, now2)

Clear == clear_conversation

SnapAddUserMessage ==
    /\ Len(messages) < MaxSnapHist
    /\ \E content \in SnapTexts, now \in SnapTimes : add_user_message(content, now)

SnapAddAssistantMessage ==
    /\ Len(messages) < MaxSnapHist
    /\ \E content \in SnapTexts, now \in SnapTimes : add_assistant_message(content, now)

GetMessages == get_messages

SnapProcessTurn ==
    /\ Len(messages) + 2 <= MaxSnapHist
    /\ \E text \in Texts, o \in Outcomes, now1 \in Times, now2 \in Times :
          process_conversation_turn(text, o, now1, now2)

CallerAppend ==
    /\ Len(snapshot) < MaxSnapHist
    /\ caller_append

CallerRemove == \E i \in 1..Len(snapshot) : caller_remove(i)

CallerReplace == \E i \in 1..Len(snapshot) : caller_replace(i)

CallerSetField ==
    \E i \in 1..Len(snapshot), w \in FieldWrites : caller_set_field(i, w[1], w[2])

AddService == \E name \in Names, service \in Instances : add_service(name, service)

SetActiveService == \E name \in Names : set_active_service(name)

GetActiveService == get_active_service

GetServiceNames == get_service_names

\* One ChatService used through its operations.
Next ==
    \/ SetApiKey
    \/ AddUserMessage
    \/ AddAssistantMessage
    \/ RequestCompletion
    \/ Clear

Spec == Init /\ [][Next]_vars

\* One ChatService used as the presentation layer uses it: whole turns.
TurnNext ==
    \/ SetApiKey
    \/ ProcessTurn
    \/ Clear

TurnSpec == Init /\ [][TurnNext]_vars

\* One ChatService and a caller that changes the list get_messages gave it.
SnapshotNext ==
    \/ SnapAddUserMessage
    \/ SnapAddAssistantMessage
    \/ Clear
    \/ GetMessages
    \/ CallerAppend
    \/ CallerRemove
    \/ CallerReplace
    \/ CallerSetField

SnapshotSpec == Init /\ [][SnapshotNext]_vars

\* One ChatService used in whole turns by a caller that also reads the
\* history and clears it.
ClearNext ==
    \/ SetApiKey
    \/ SnapProcessTurn
    \/ GetMessages
    \/ Clear

ClearSpec == Init /\ [][ClearNext]_vars

\* One MultiChatService.
RegistryNext ==
    \/ AddService
    \/ SetActiveService
    \/ GetActiveService
    \/ GetServiceNames

RegistrySpec == Init /\ [][RegistryNext]_vars

TypeOK ==
    /\ api_key \in ApiKeys
    /\ Len(messages) <= MaxTurnHist
    /\ \A i \in 1..Len(snapshot) : snapshot[i].index <= Len(messages)

\* ------------------------------------------------------------- properties
\* A text that is empty or holds blanks only.
IsBlank(s) == \A i \in 1..Len(s) : s[i] = " "

\* A text without its leading and trailing blanks.
Trimmed(s) ==
    LET nb == {i \in 1..Len(s) : s[i] # " "} IN
    IF nb = {} THEN <<>>
    ELSE SubSeq(s, CHOOSE i \in nb : \A j \in nb : i <= j,
                   CHOOSE i \in nb : \A j \in nb : j <= i)

\* msgs is an initial part of more.
IsPrefix(msgs, more) ==
    Len(msgs) <= Len(more) /\ SubSeq(more, 1, Len(msgs)) = msgs

\* name is a key of the mapping.
IsKey(name) == \E i \in 1..Len(services) : services[i].name = name

FailureKinds ==
    {"content_none", "IndexError", "AuthenticationError", "RateLimitError",
     "APIError", "Exception"}

CallerOps == {"caller_append", "caller_remove", "caller_replace", "caller_set_field"}

\* C1: every process_conversation_turn returns normally and adds one user
\* message followed by one assistant message, so under turns and clears the
\* history has even length and alternates user, assistant.
C1_TurnsComeInPairs ==
    /\ last.op = "process_conversation_turn" => last.raised = ""
    /\ Len(messages) % 2 = 0
    /\ \A i \in 1..Len(messages) :
          messages[i].role = IF i % 2 = 1 THEN "user" ELSE "assistant"

\* C2: when get_ai_response passes its local checks, the payload sent is the
\* system prompt as a system entry, then the role and content (and nothing
\* else) of every message of the history in order, then the user text as
\* given as the last entry, with role user.
C2_PayloadIsPromptHistoryText ==
    (last.op = "get_ai_response" /\ ~IsBlank(api_key) /\ ~IsBlank(last.arg)) =>
        /\ Len(last.sent) = 1
        /\ Len(last.sent[1]) = Len(messages) + 2
        /\ last.sent[1][1] = [role |-> "system", content |-> _get_system_prompt]
        /\ \A i \in 1..Len(messages) :
              /\ DOMAIN last.sent[1][i + 1] = {"role", "content"}
              /\ last.sent[1][i + 1].role = messages[i].role
              /\ last.sent[1][i + 1].content = messages[i].content
        /\ last.sent[1][Len(messages) + 2] = [role |-> "user", content |-> last.arg]

C2_Witness ==
    /\ last.op = "get_ai_response"
    /\ Len(last.sent) = 1
    /\ Len(messages) >= 2
    /\ messages[1].content # messages[2].content
    /\ last.arg = <<" ", "a", " ">>

\* C3: get_ai_response with an empty or blank credential returns the
\* configuration error with success false, sends nothing to the endpoint and
\* leaves the history as it was.
C3_NoCredentialNoCall ==
    [][(last'.op = "get_ai_response" /\ IsBlank(api_key)) =>
          /\ last'.text = API_KEY_NOT_CONFIGURED
          /\ ~last'.is_none
          /\ ~last'.success
          /\ last'.sent = <<>>
          /\ last'.raised = ""
          /\ messages' = messages]_vars

C3_Witness ==
    /\ last.op = "get_ai_response"
    /\ api_key = <<" ">>
    /\ ~IsBlank(last.arg)
    /\ last.text = API_KEY_NOT_CONFIGURED
    /\ Len(messages) > 0

\* C4 as claimed: get_ai_response with an empty or blank user text returns
\* the empty-message error with success false, whatever the credential.
C4_BlankTextAlwaysInputError ==
    (last.op = "get_ai_response" /\ IsBlank(last.arg)) =>
        last.text = EMPTY_MESSAGE /\ ~last.success

\* C4 as amended: get_ai_response with an empty or blank user text sends
\* nothing and returns success false whatever the credential; the text is
\* the empty-message error when the credential is set and the
\* configuration error when the credential is empty or blank.
C4_BlankTextFailsLocally ==
    (last.op = "get_ai_response" /\ IsBlank(last.arg)) =>
        /\ ~last.success
        /\ last.sent = <<>>
        /\ last.text = IF IsBlank(api_key) THEN API_KEY_NOT_CONFIGURED
                                           ELSE EMPTY_MESSAGE

C4_Witness ==
    /\ last.op = "get_ai_response"
    /\ last.arg = <<" ">>
    /\ ~IsBlank(api_key)
    /\ last.text = EMPTY_MESSAGE
    /\ ~last.success

\* C5: whatever the endpoint call does short of returning a text (an
\* exception of any class, no choice, no content), process_conversation_turn
\* returns normally with success false and its failure text is the content
\* of the assistant message it recorded last.
C5_FailuresAreRecordedNotRaised ==
    (last.op = "process_conversation_turn" /\ last.outcome.kind \in FailureKinds) =>
        /\ last.raised = ""
        /\ ~last.success
        /\ ~last.is_none
        /\ Len(messages) >= 2
        /\ messages[Len(messages)].role = "assistant"
        /\ messages[Len(messages)].content = last.text

\* C6: whatever a caller does to the list get_messages returned (append,
\* remove, replace an entry, write a field of an entry), the history is
\* what it was.
C6_SnapshotIsDetached ==
    [][last'.op \in CallerOps => messages' = messages]_vars

\* C7: add_user_message and add_assistant_message put one message with
\* their role and the trimmed text at the end and leave the earlier ones as
\* they were and where they were; no operation but clear_conversation
\* removes or moves a message.
C7_AppendOnly ==
    [][/\ last'.op \in {"add_user_message", "add_assistant_message"} =>
            /\ Len(messages') = Len(messages) + 1
            /\ IsPrefix(messages, messages')
            /\ messages'[Len(messages')].role =
                   (IF last'.op = "add_user_message" THEN "user" ELSE "assistant")
            /\ messages'[Len(messages')].content = Trimmed(last'.arg)
       /\ last'.op # "clear_conversation" => IsPrefix(messages, messages')]_vars

C7_Witness ==
    /\ last.op = "add_assistant_message"
    /\ last.arg = <<" ", "a", " ">>
    /\ Len(messages) = 2
    /\ messages[1].role = "user"
    /\ messages[1].content = <<>>
    /\ messages[2].content = <<"a">>

\* C8: the selected name is None or a key of the mapping.
C8_SelectedIsKey == active_service = None \/ IsKey(active_service)

C8_Witness ==
    /\ last.op = "set_active_service"
    /\ ~last.success
    /\ IsKey(active_service)
    /\ Len(services) >= 2

\* C9: set_active_service(name) returns true and selects name when name is
\* a key of the mapping; otherwise it returns false and leaves the
\* selection; either way the mapping is as it was.
C9_SetActive ==
    [][last'.op = "set_active_service" =>
          /\ services' = services
          /\ IF IsKey(last'.name)
                 THEN last'.success /\ active_service' = last'.name
                 ELSE ~last'.success /\ active_service' = active_service]_vars

C9_Witness ==
    /\ last.op = "set_active_service"
    /\ last.success
    /\ active_service = last.name
    /\ Len(services) >= 2
    /\ services[1].name # last.name

\* C10: add_service(name, service) selects name when nothing was selected
\* and leaves the selection otherwise; a selection changes only by a
\* set_active_service that returns true.
C10_FirstAddedStaysSelected ==
    [][/\ last'.op = "add_service" =>
            active_service' = (IF active_service = None THEN last'.name
                                                        ELSE active_service)
       /\ (active_service # None /\ active_service' # active_service) =>
            (last'.op = "set_active_service" /\ last'.success)]_vars

C10_Witness ==
    /\ last.op = "add_service"
    /\ Len(services) >= 2
    /\ active_service = services[1].name
    /\ last.name # active_service

\* C11: get_active_service returns None exactly when nothing is selected or
\* the selected name is not a key of the mapping; otherwise, whatever the
\* selected name is (the empty string too), it returns the service the
\* mapping holds for that name.
C11_ActiveIsMappedService ==
    last.op = "get_active_service" =>
        IF active_service = None \/ ~IsKey(active_service)
            THEN last.service = None
            ELSE \E i \in 1..Len(services) :
                    /\ services[i].name = active_service
                    /\ last.service = services[i].service

\* C12: clear_conversation empties the history and leaves the system prompt
\* and the credential as they were; a get_messages right after it returns
\* the empty list; and a turn whose endpoint call answers with a text --
\* after a clear as before one -- succeeds and sends the system prompt of
\* the construction as the first entry.
C12_ClearKeepsPromptAndKey ==
    [][/\ last'.op = "clear_conversation" =>
            /\ messages' = <<>>
            /\ system_prompt' = system_prompt
            /\ api_key' = api_key
       /\ (last.op = "clear_conversation" /\ last'.op = "get_messages") =>
            /\ snapshot' = <<>>
            /\ last'.ids = <<>>
       /\ (last'.op = "process_conversation_turn" /\ last'.outcome.kind = "content") =>
            /\ last'.success
            /\ last'.raised = ""
            /\ Len(last'.sent) = 1
            /\ last'.sent[1][1] = [role |-> "system", content |-> _get_system_prompt]
            /\ system_prompt' = _get_system_prompt]_vars

\* A successful turn on a history that was cleared after the caller had read
\* it: the caller's list still holds the messages of before the clear.
C12_Witness ==
    /\ last.op = "process_conversation_turn"
    /\ last.success
    /\ Len(messages) = 2
    /\ Len(snapshot) = 2
    /\ snapshot[1].index = 0
    /\ last.sent[1][1].content = _get_system_prompt

\* The number of messages the last turn left in the history: the user
\* message, and the assistant message when the turn returned.
TurnAdded == IF last.raised = "" THEN 2 ELSE 1

\* C13: in the payload a turn sends, the last entry is the turn's user text
\* with role user, and the entries before it are the system prompt and the
\* messages of the earlier turns, nothing else: the turn's user text is in
\* the payload once.
C13_TurnTextSentOnce ==
    (last.op = "process_conversation_turn" /\ Len(last.sent) = 1) =>
        /\ Len(last.sent[1]) = (Len(messages) - TurnAdded) + 2
        /\ last.sent[1][1] = [role |-> "system", content |-> _get_system_prompt]
        /\ \A i \in 1..(Len(messages) - TurnAdded) :
              /\ last.sent[1][i + 1].role = messages[i].role
              /\ last.sent[1][i + 1].content = messages[i].content
        /\ last.sent[1][Len(last.sent[1])] = [role |-> "user", content |-> last.arg]
====
